---------------------------- MODULE Spec2Model ----------------------------
(***************************************************************************)
(* State-machine model of the erract crate:                                *)
(*   - src/src/arena/mod.rs : thread ids, ContextArena, ContextHandle      *)
(*   - src/src/error.rs     : Error, with_context, is_retryable, Display,  *)
(*                            to_machine_string, to_json, write_json       *)
(*   - src/src/convert.rs   : From<io::Error>                              *)
(*   - src/src/http.rs      : HttpErrorKind::from_status                   *)
(*   - src/src/status.rs, src/src/kind.rs : ErrorStatus, ErrorKind         *)
(*   - src/src/extract.rs   : FrameIter and the aggregate queries          *)
(*                                                                         *)
(* Integer widths are scaled: a byte has ByteBase values instead of 256,   *)
(* a u32 is LenBytes bytes and a usize is twice as wide as a u32 (64-bit   *)
(* target), so that `as u32` truncation and usize overflow stay reachable. *)
(***************************************************************************)
EXTENDS Integers, Sequences, FiniteSets, TLC

(***************************************************************************)
(* Bounds of the model                                                     *)
(***************************************************************************)
ByteBase == 4        \* number of byte values (256 in the program)
NumThreads == 2      \* threads that run arena and error operations
MaxPairs == 2        \* longest pair sequence given to push_pairs
MaxIssued == 2       \* push_pairs / commit_to_arena calls in one run
MaxCtx == 3          \* with_context calls on one error
MaxFrames == 4       \* frames in an enumerated frame tree

(***************************************************************************)
(* Integer types                                                           *)
(***************************************************************************)
LenBytes == 4                      \* size of the u32 length prefix
U32Mod == ByteBase ^ LenBytes      \* u32 values are 0 .. U32Mod - 1
UsizeMod == U32Mod * U32Mod        \* usize values are 0 .. UsizeMod - 1
UsizeMax == UsizeMod - 1
IsizeMax == (UsizeMod \div 2) - 1
UsizeBytes == 2 * LenBytes
\* size_of::<(Cow<'static, str>, Cow<'static, str>)>(): two Cows of three words
PairBytes == 2 * 3 * UsizeBytes

Threads == 1 .. NumThreads
Builds == {"debug", "release"}     \* overflow checks on / off

\* `n as u32`
AsU32(n) == n % U32Mod

\* u32::to_le_bytes
ToLeBytes(n) == [i \in 1 .. LenBytes |-> (n \div (ByteBase ^ (i - 1))) % ByteBase]

RECURSIVE LeSum(_, _)
LeSum(bs, i) ==
    IF i > Len(bs) THEN 0 ELSE bs[i] * (ByteBase ^ (i - 1)) + LeSum(bs, i + 1)

\* u32::from_le_bytes(..) as usize
FromLeBytes(bs) == LeSum(bs, 1)

(***************************************************************************)
(* Strings are sequences of bytes.  Bytes below Cont are ASCII; Lead       *)
(* followed by Cont is the one two-byte character of the model.            *)
(***************************************************************************)
Lead == ByteBase - 1
Cont == ByteBase - 2
Repl == ByteBase                   \* U+FFFD, written by from_utf8_lossy

\* String::from_utf8_lossy(..).into_owned(): a byte that is not part of a
\* well-formed character is replaced by U+FFFD.
Utf8Lossy(bs) ==
    [i \in 1 .. Len(bs) |->
        IF bs[i] < Cont THEN bs[i]
        ELSE IF bs[i] = Lead /\ i < Len(bs) /\ bs[i + 1] = Cont THEN bs[i]
        ELSE IF bs[i] = Cont /\ i > 1 /\ bs[i - 1] = Lead THEN bs[i]
        ELSE Repl]

StrEmpty == << >>
StrA == << 1 >>
StrAccent == << Lead, Cont >>
StrWide == [i \in 1 .. U32Mod |-> 0]     \* a string of 2^32 (scaled) bytes

PairPool == { << StrEmpty, StrA >>, << StrA, StrAccent >> }
WidePair == << StrWide, StrA >>

RECURSIVE SeqsUpTo(_, _)
SeqsUpTo(S, n) ==
    IF n = 0 THEN { << >> }
    ELSE LET shorter == SeqsUpTo(S, n - 1)
         IN  shorter \cup { Append(s, x) : s \in shorter, x \in S }

\* the pair slices given to push_pairs and commit_to_arena
PairSeqs == SeqsUpTo(PairPool, MaxPairs) \cup { << WidePair >> }


(***************************************************************************)
(* State                                                                   *)
(***************************************************************************)
VARIABLES
    build,          \* the build profile of the program
    nextThreadId,   \* static NEXT_THREAD_ID
    threadId,       \* thread_local THREAD_ID of each thread, 0 = not yet initialised
    arenaInit,      \* whether the thread_local ARENA of each thread exists
    buffer,         \* ContextArena::buffer of each thread
    crashed,        \* threads that panicked
    issued,         \* (offset, len) results and handles handed out, with what was written
    ret,            \* the last call and what it returned
    err,            \* an Error value
    ctxLog,         \* the (key, value) arguments given to with_context on err, in order
    orig,           \* the Error value that err was last cloned from
    out,            \* the String that the last rendering of err wrote
    tree,           \* the frame tree of an Exn<Error>
    pc,             \* the query that is running on the tree
    stack,          \* FrameIter::stack
    yielded,        \* the frames FrameIter::next has returned, in order
    result,         \* the value the query returned
    ioErr,          \* an io::Error that is converted: its kind and its text
    httpStatus,     \* a u16 status code given to HttpErrorKind::from_status
    httpKind        \* the HttpErrorKind made from httpStatus

arenaVars == << build, nextThreadId, threadId, arenaInit, buffer, crashed, issued, ret >>
errorVars == << err, ctxLog, orig, out >>
treeVars == << tree, pc, stack, yielded, result >>
convVars == << ioErr, httpStatus, httpKind >>
vars == << build, nextThreadId, threadId, arenaInit, buffer, crashed, issued, ret,
           err, ctxLog, orig, out, tree, pc, stack, yielded, result,
           ioErr, httpStatus, httpKind >>

(***************************************************************************)
(* src/src/arena/mod.rs : ContextArena                                     *)
(***************************************************************************)

\* ContextArena::new
ArenaNew == << >>

\* ContextArena::clear
clear(buf) == << >>

\* the bytes push_pairs appends for one pair
EncodePair(p) ==
    ToLeBytes(AsU32(Len(p[1]))) \o p[1] \o ToLeBytes(AsU32(Len(p[2]))) \o p[2]

RECURSIVE EncodePairs(_, _)
EncodePairs(pairs, i) ==
    IF i > Len(pairs) THEN << >>
    ELSE EncodePair(pairs[i]) \o EncodePairs(pairs, i + 1)

\* ContextArena::push_pairs
push_pairs(buf, pairs) ==
    [buffer |-> buf \o EncodePairs(pairs, 1),
     offset |-> Len(buf),
     len    |-> Len(pairs)]

\* usize addition: checked in a debug build, wrapping in a release build
AddUsize(a, b) == [ovf |-> a + b > UsizeMax, val |-> (a + b) % UsizeMod]

\* Vec::with_capacity(len) of pairs panics with "capacity overflow"
CapacityOverflow(len) == len * PairBytes > IsizeMax

\* `if pos + n > self.buffer.len() { break; }` followed by
\* `&self.buffer[pos..pos + n]` and `pos += n`
ReadSlice(buf, pos, n, bld) ==
    LET s == AddUsize(pos, n)
    IN  IF s.ovf /\ bld = "debug" THEN [st |-> "panic", bytes |-> << >>, pos |-> pos]
        ELSE IF s.val > Len(buf) THEN [st |-> "break", bytes |-> << >>, pos |-> pos]
        ELSE IF pos > s.val THEN [st |-> "panic", bytes |-> << >>, pos |-> pos]
        ELSE [st |-> "ok", bytes |-> SubSeq(buf, pos + 1, s.val), pos |-> s.val]

\* one turn of the loop of get_pairs: st is "ok" when a pair was decoded
ReadPair(buf, pos, bld) ==
    LET kl == ReadSlice(buf, pos, LenBytes, bld)
    IN  IF kl.st # "ok" THEN [st |-> kl.st, pair |-> << >>, pos |-> pos]
        ELSE
        LET k == ReadSlice(buf, kl.pos, FromLeBytes(kl.bytes), bld)
        IN  IF k.st # "ok" THEN [st |-> k.st, pair |-> << >>, pos |-> pos]
            ELSE
            LET vl == ReadSlice(buf, k.pos, LenBytes, bld)
            IN  IF vl.st # "ok" THEN [st |-> vl.st, pair |-> << >>, pos |-> pos]
                ELSE
                LET v == ReadSlice(buf, vl.pos, FromLeBytes(vl.bytes), bld)
                IN  IF v.st # "ok" THEN [st |-> v.st, pair |-> << >>, pos |-> pos]
                    ELSE [st   |-> "ok",
                          pair |-> << Utf8Lossy(k.bytes), Utf8Lossy(v.bytes) >>,
                          pos  |-> v.pos]

RECURSIVE GetLoop(_, _, _, _, _)
GetLoop(buf, pos, left, acc, bld) ==
    IF left = 0 THEN [pairs |-> acc, panicked |-> FALSE]
    ELSE LET r == ReadPair(buf, pos, bld)
         IN  IF r.st = "panic" THEN [pairs |-> << >>, panicked |-> TRUE]
             ELSE IF r.st = "break" THEN [pairs |-> acc, panicked |-> FALSE]
             ELSE GetLoop(buf, r.pos, left - 1, Append(acc, r.pair), bld)

\* ContextArena::get_pairs
get_pairs(buf, offset, len, bld) ==
    IF CapacityOverflow(len) THEN [pairs |-> << >>, panicked |-> TRUE]
    ELSE GetLoop(buf, offset, len, << >>, bld)

(***************************************************************************)
(* src/src/arena/mod.rs : thread ids, with_arena, commit_to_arena, handles *)
(***************************************************************************)
NoId == -1

\* current_thread_id: the first call on a thread runs the initialiser of THREAD_ID
current_thread_id(t) == IF threadId[t] = NoId THEN nextThreadId ELSE threadId[t]

\* THREAD_ID after current_thread_id ran on thread t
ThreadIdAfter(t) ==
    IF threadId[t] = NoId THEN [threadId EXCEPT ![t] = nextThreadId] ELSE threadId

\* NEXT_THREAD_ID after current_thread_id ran on thread t, were the
\* initialiser of THREAD_ID a load instead of a fetch_add
NextThreadIdLoaded(t) == nextThreadId

\* NEXT_THREAD_ID after current_thread_id ran on thread t (fetch_add wraps)
NextThreadIdAfter(t) ==
    IF threadId[t] = NoId THEN (nextThreadId + 1) % UsizeMod ELSE nextThreadId

\* with_arena, were ARENA one static shared by the threads instead of a thread_local
with_arena_global(t) == [u \in Threads |-> TRUE]

\* RefCell::borrow_mut of the ARENA cell: panics when the cell is already
\* mutably borrowed, as it is inside the closure of with_arena
borrow_mut(borrowed) == [panicked |-> borrowed]

\* with_arena: the first use on a thread creates the thread's arena
with_arena(t) == [arenaInit EXCEPT ![t] = TRUE]

\* ContextHandle::Arena { offset, len, thread_id }
ArenaHandle(offset, len, id) ==
    [tag |-> "Arena", offset |-> offset, len |-> len, thread_id |-> id]

\* ContextHandle::len: the Arena arm is the stored len
handle_len(h) ==
    CASE h.tag = "Arena" -> h.len
      [] h.tag = "Heap" -> Len(h.pairs)
      [] h.tag = "Empty" -> 0

\* ContextHandle::is_empty
handle_is_empty(h) == handle_len(h) = 0

\* what a commit_to_arena call handed out (the result of its push_pairs and
\* the thread id of its handle), with the pairs it wrote; stale is set by a later clear() of the owner's arena
Issue(t, offset, len, id, pairs) ==
    [owner |-> t, offset |-> offset, len |-> len,
     thread_id |-> id, pairs |-> pairs, stale |-> FALSE]

Ret(op, t, offset, len, pairs, panicked, recs, val) ==
    [op |-> op, thread |-> t, offset |-> offset, len |-> len, pairs |-> pairs,
     panicked |-> panicked, recs |-> recs, val |-> val]

NoRet == Ret("none", 0, 0, 0, << >>, FALSE, {}, FALSE)

Live(t) == t \notin crashed

\* commit_to_arena(pairs): current_thread_id(), then
\* with_arena(|arena| arena.push_pairs(pairs))
commit_to_arena(t, pairs) ==
    /\ Live(t)
    /\ Cardinality(issued) < MaxIssued
    /\ threadId' = ThreadIdAfter(t)
    /\ nextThreadId' = NextThreadIdAfter(t)
    /\ LET r == push_pairs(buffer[t], pairs)
           id == current_thread_id(t)
       IN  /\ buffer' = [buffer EXCEPT ![t] = r.buffer]
           /\ issued' = issued \cup { Issue(t, r.offset, r.len, id, pairs) }
           /\ ret' = Ret("commit_to_arena", t, r.offset, r.len, pairs, FALSE, {}, FALSE)
    /\ arenaInit' = with_arena(t)
    /\ UNCHANGED << build, crashed, errorVars, treeVars, convVars >>

\* with_arena(|arena| arena.clear())
CallClear(t) ==
    /\ Live(t)
    /\ buffer' = [buffer EXCEPT ![t] = clear(buffer[t])]
    /\ arenaInit' = with_arena(t)
    /\ issued' = { IF h.owner = t THEN [h EXCEPT !.stale = TRUE] ELSE h : h \in issued }
    /\ ret' = Ret("clear", t, 0, 0, << >>, FALSE, {}, FALSE)
    /\ UNCHANGED << build, nextThreadId, threadId, crashed, errorVars, treeVars, convVars >>

\* the offsets and lengths get_pairs is called with
ProbeOffsets(t) == { h.offset : h \in { i \in issued : i.owner = t } } \cup { 1, UsizeMax - 1 }
ProbeLens == { 0, 1, MaxPairs, UsizeMax }

\* with_arena(|arena| arena.get_pairs(offset, len))
CallGetPairs(t, offset, len) ==
    /\ Live(t)
    /\ LET r == get_pairs(buffer[t], offset, len, build)
           recs == { h \in issued : h.owner = t /\ h.offset = offset /\ h.len = len }
       IN  /\ ret' = Ret("get_pairs", t, offset, len, r.pairs, r.panicked, recs, FALSE)
           /\ crashed' = IF r.panicked THEN crashed \cup { t } ELSE crashed
    /\ arenaInit' = with_arena(t)
    /\ UNCHANGED << build, nextThreadId, threadId, buffer, issued, errorVars, treeVars, convVars >>

\* with_arena(|_| with_arena(..)) or with_arena(|_| commit_to_arena(..)) on
\* thread t: the inner call borrows the cell the outer call holds
NestedCalls == { "with_arena", "commit_to_arena" }

CallNested(t, inner) ==
    /\ Live(t)
    /\ arenaInit' = with_arena(t)
    /\ threadId' = IF inner = "commit_to_arena" THEN ThreadIdAfter(t) ELSE threadId
    /\ nextThreadId' = IF inner = "commit_to_arena" THEN NextThreadIdAfter(t)
                       ELSE nextThreadId
    /\ LET r == borrow_mut(TRUE)
       IN  /\ ret' = Ret("nested", t, 0, 0, << >>, r.panicked, {},
                         inner = "commit_to_arena")
           /\ crashed' = IF r.panicked THEN crashed \cup { t } ELSE crashed
    /\ UNCHANGED << build, buffer, issued, errorVars, treeVars, convVars >>

\* the pairs a ContextHandle::Arena resolves to on thread t
\* (the Arena arm of ContextHandle::serialize)
ResolveArena(t, h) ==
    IF h.thread_id = current_thread_id(t)
    THEN get_pairs(buffer[t], h.offset, h.len, build)
    ELSE [pairs |-> << >>, panicked |-> FALSE]

\* whether resolving h on thread t goes to the arena of t
ResolveReadsArena(t, h) == h.thread_id = current_thread_id(t)

\* a handle made by commit_to_arena is resolved on thread t
Resolve(t, h) ==
    /\ Live(t)
    /\ h \in issued
    /\ threadId' = ThreadIdAfter(t)
    /\ nextThreadId' = NextThreadIdAfter(t)
    /\ LET r == ResolveArena(t, ArenaHandle(h.offset, h.len, h.thread_id))
       IN  /\ ret' = Ret("resolve", t, h.offset, h.len, r.pairs, r.panicked, { h },
                         ResolveReadsArena(t, h))
           /\ crashed' = IF r.panicked THEN crashed \cup { t } ELSE crashed
    /\ arenaInit' = IF ResolveReadsArena(t, h) THEN with_arena(t) ELSE arenaInit
    /\ UNCHANGED << build, buffer, issued, errorVars, treeVars, convVars >>

(***************************************************************************)
(* src/src/status.rs, src/src/kind.rs, src/src/error.rs                    *)
(***************************************************************************)
Statuses == { "Permanent", "Temporary", "Persistent" }
Kinds == { "NotFound", "PermissionDenied", "Timeout", "Validation", "Unexpected" }
Messages == { StrA }
NoOperation == << >>
Operations == { NoOperation, << StrA >> }      \* Option<&'static str>

\* ErrorStatus::is_retryable
StatusIsRetryable(status) == status = "Temporary"

\* ErrorStatus::is_permanent
StatusIsPermanent(status) == status = "Permanent"

\* ErrorKind::is_retryable
KindIsRetryable(kind) == kind = "Timeout"

\* Error::new
ErrorNew(kind, status, message) ==
    [kind |-> kind, status |-> status, message |-> message,
     operation |-> NoOperation, context |-> << >>]

\* Error::is_retryable, were it to ask the kind
is_retryable_by_kind(e) == KindIsRetryable(e.kind)

\* Error::is_retryable
is_retryable(e) == StatusIsRetryable(e.status)

\* Error::is_permanent
is_permanent(e) == StatusIsPermanent(e.status)

\* Error::context
context(e) == e.context

\* Error::with_context, were the error built again from kind, status and
\* message before the push
with_context_rebuilt(e, key, value) ==
    [ErrorNew(e.kind, e.status, e.message) EXCEPT
        !.context = Append(e.context, << key, value >>)]

\* Error::with_context, were a second pair with a key already present dropped
with_context_dedup(e, key, value) ==
    IF \E i \in 1 .. Len(e.context) : e.context[i][1] = key
    THEN e
    ELSE [e EXCEPT !.context = Append(@, << key, value >>)]

\* Error::with_context: self.context.push((key.into(), value.into()))
with_context(e, key, value) == [e EXCEPT !.context = Append(@, << key, value >>)]

\* #[derive(Clone)] for Error: every field is cloned, the context pair by pair
clone(e) ==
    [kind |-> e.kind, status |-> e.status, message |-> e.message,
     operation |-> e.operation,
     context |-> [i \in 1 .. Len(e.context) |-> << e.context[i][1], e.context[i][2] >>]]

\* equality of Error, were the context left out of the comparison
eq_without_context(a, b) ==
    /\ a.kind = b.kind
    /\ a.status = b.status
    /\ a.message = b.message
    /\ a.operation = b.operation

\* #[derive(PartialEq, Eq)] for Error: the fields are compared in turn
eq(a, b) ==
    /\ a.kind = b.kind
    /\ a.status = b.status
    /\ a.message = b.message
    /\ a.operation = b.operation
    /\ Len(a.context) = Len(b.context)
    /\ \A i \in 1 .. Len(a.context) : a.context[i] = b.context[i]

\* Error::with_operation
with_operation(e, op) == [e EXCEPT !.operation = << op >>]

\* the arena buffers after Error::with_context ran on thread t, were the
\* accumulated set of more than one pair committed to the arena
ArenaAfterWithContextCommit(t, e) ==
    IF Len(e.context) > 1
    THEN [buffer EXCEPT ![t] = push_pairs(buffer[t], e.context).buffer]
    ELSE buffer

\* the arena buffers after Error::with_context ran on thread t: the pair is
\* pushed on the error's own SmallVec and no arena is used
ArenaAfterWithContext(t, e) == buffer

\* let err = Error::new(kind, status, message)
CallErrorNew(kind, status, message) ==
    /\ err' = ErrorNew(kind, status, message)
    /\ ctxLog' = << >>
    /\ ret' = Ret("new", 0, 0, 0, << >>, FALSE, {}, FALSE)
    /\ UNCHANGED << build, nextThreadId, threadId, arenaInit, buffer, crashed, issued,
                    orig, out, treeVars, convVars >>

\* err = err.with_context(key, value) on thread t
CallWithContext(t, key, value) ==
    /\ Live(t)
    /\ Len(ctxLog) < MaxCtx
    /\ err' = with_context(err, key, value)
    /\ ctxLog' = Append(ctxLog, << key, value >>)
    /\ buffer' = ArenaAfterWithContext(t, err')
    /\ ret' = Ret("with_context", t, 0, 0, context(err'), FALSE, {}, FALSE)
    /\ UNCHANGED << build, nextThreadId, threadId, arenaInit, crashed, issued,
                    orig, out, treeVars, convVars >>

\* err = err.with_operation(op)
CallWithOperation(op) ==
    /\ err' = with_operation(err, op)
    /\ ret' = Ret("with_operation", 0, 0, 0, << >>, FALSE, {}, FALSE)
    /\ UNCHANGED << build, nextThreadId, threadId, arenaInit, buffer, crashed, issued,
                    ctxLog, orig, out, treeVars, convVars >>

\* err.is_retryable()
CallIsRetryable ==
    /\ ret' = Ret("is_retryable", 0, 0, 0, << >>, FALSE, {}, is_retryable(err))
    /\ UNCHANGED << build, nextThreadId, threadId, arenaInit, buffer, crashed, issued,
                    errorVars, treeVars, convVars >>

\* let c = e.clone(): the model keeps e in orig and goes on with c in err
CallClone ==
    /\ orig' = err
    /\ err' = clone(err)
    /\ ret' = Ret("clone", 0, 0, 0, << >>, FALSE, {}, FALSE)
    /\ UNCHANGED << build, nextThreadId, threadId, arenaInit, buffer, crashed, issued,
                    ctxLog, out, treeVars, convVars >>

\* Option::None of Error::source
NoCause == << >>

\* Error::source, were the message handed out as the cause
source_message(e) == << e.message >>

\* <Error as std::error::Error>::source
source(e) == NoCause

\* err.source().is_some()
CallSource ==
    /\ ret' = Ret("source", 0, 0, 0, << >>, FALSE, {}, source(err) # NoCause)
    /\ UNCHANGED << build, nextThreadId, threadId, arenaInit, buffer, crashed, issued,
                    errorVars, treeVars, convVars >>

\* err == orig
CallEq ==
    /\ ret' = Ret("eq", 0, 0, 0, << >>, FALSE, {}, eq(err, orig))
    /\ UNCHANGED << build, nextThreadId, threadId, arenaInit, buffer, crashed, issued,
                    errorVars, treeVars, convVars >>

(***************************************************************************)
(* src/src/error.rs : Display, to_machine_string, to_json, write_json      *)
(*                                                                         *)
(* A rendered string is a sequence of characters, each given by its code   *)
(* point; the strings of an Error are read the same way.                   *)
(***************************************************************************)
Quote == 34
Backslash == 92
LineFeed == 10
CarriageReturn == 13
Tab == 9
Comma == 44
Colon == 58
EqualsSign == 61
CloseParen == 41
CloseBracket == 93
OpenBrace == 123
CloseBrace == 125
LetterN == 110
LetterR == 114
LetterT == 116
LetterU == 117

MsKind == << 107, 105, 110, 100, 61 >>                                          \* kind=
MsStatus == << 59, 115, 116, 97, 116, 117, 115, 61 >>                           \* ;status=
MsMessage == << 59, 109, 101, 115, 115, 97, 103, 101, 61 >>                     \* ;message=
MsOperation == << 59, 111, 112, 101, 114, 97, 116, 105, 111, 110, 61 >>         \* ;operation=
MsContext == << 59, 99, 111, 110, 116, 101, 120, 116, 61, 91 >>                 \* ;context=[
JsKind == << 123, 34, 107, 105, 110, 100, 34, 58, 34 >>                         \* {"kind":"
JsStatus == << 34, 44, 34, 115, 116, 97, 116, 117, 115, 34, 58, 34 >>           \* ","status":"
JsMessage == << 34, 44, 34, 109, 101, 115, 115, 97, 103, 101, 34, 58, 34 >>     \* ","message":"
JsOperation == << 44, 34, 111, 112, 101, 114, 97, 116, 105, 111, 110, 34, 58, 34 >>  \* ,"operation":"
JsContext == << 44, 34, 99, 111, 110, 116, 101, 120, 116, 34, 58, 123 >>        \* ,"context":{
JsColon == << 34, 58, 34 >>                                                     \* ":"
FmtOperation == << 32, 40, 111, 112, 101, 114, 97, 116, 105, 111, 110, 58, 32 >>  \*  (operation: 
FmtOpen == << 32, 91 >>                                                         \*  [
FmtSep == << 44, 32 >>                                                          \* , 
FmtColon == << 58, 32 >>                                                        \* : 

\* ErrorKind::to_machine_string
KindToMachineString(kind) ==
    CASE kind = "NotFound" -> << 110, 111, 116, 95, 102, 111, 117, 110, 100 >>
      [] kind = "PermissionDenied" -> << 112, 101, 114, 109, 105, 115, 115, 105, 111, 110, 95, 100, 101, 110, 105, 101, 100 >>
      [] kind = "Timeout" -> << 116, 105, 109, 101, 111, 117, 116 >>
      [] kind = "Validation" -> << 118, 97, 108, 105, 100, 97, 116, 105, 111, 110, 95, 101, 114, 114, 111, 114 >>
      [] kind = "Unexpected" -> << 117, 110, 101, 120, 112, 101, 99, 116, 101, 100, 95, 101, 114, 114, 111, 114 >>

\* ErrorStatus::to_machine_string
StatusToMachineString(status) ==
    CASE status = "Permanent" -> << 112, 101, 114, 109, 97, 110, 101, 110, 116 >>
      [] status = "Temporary" -> << 116, 101, 109, 112, 111, 114, 97, 114, 121 >>
      [] status = "Persistent" -> << 112, 101, 114, 115, 105, 115, 116, 101, 110, 116 >>

\* char::is_control: the general category Cc
IsControl(c) == c \in 0 .. 31 \/ c \in 127 .. 159

\* one digit of {:x}
HexDigit(d) == IF d < 10 THEN 48 + d ELSE 87 + d

\* {:04x} of c as u32, for a control character c (all are below 16^4)
Hex4(n) ==
    << HexDigit(n \div 4096), HexDigit((n \div 256) % 16),
       HexDigit((n \div 16) % 16), HexDigit(n % 16) >>

\* the match of write_escaped on one character
EscapeChar(c) ==
    IF c = Quote THEN << Backslash, Quote >>
    ELSE IF c = Backslash THEN << Backslash, Backslash >>
    ELSE IF c = LineFeed THEN << Backslash, LetterN >>
    ELSE IF c = CarriageReturn THEN << Backslash, LetterR >>
    ELSE IF c = Tab THEN << Backslash, LetterT >>
    ELSE IF IsControl(c) THEN << Backslash, LetterU >> \o Hex4(c)
    ELSE << c >>

RECURSIVE EscapeFrom(_, _, _)
EscapeFrom(buf, s, i) ==
    IF i > Len(s) THEN buf ELSE EscapeFrom(buf \o EscapeChar(s[i]), s, i + 1)

\* write_escaped(buf, s)
write_escaped(buf, s) == EscapeFrom(buf, s, 1)

\* the loop of Display::fmt over the context
RECURSIVE FmtPairs(_, _, _)
FmtPairs(f, ctx, i) ==
    IF i > Len(ctx) THEN f
    ELSE FmtPairs((IF i > 1 THEN f \o FmtSep ELSE f) \o ctx[i][1] \o FmtColon \o ctx[i][2],
                  ctx, i + 1)

\* Display::fmt, were the pairs written with no separator between them
fmt_unseparated(e) ==
    LET m == e.message
        o == IF e.operation # NoOperation
             THEN m \o FmtOperation \o e.operation[1] \o << CloseParen >>
             ELSE m
    IN  IF e.context # << >>
        THEN LET P[i \in 0 .. Len(e.context)] ==
                     IF i = 0 THEN o \o FmtOpen
                     ELSE P[i - 1] \o e.context[i][1] \o FmtColon \o e.context[i][2]
             IN  P[Len(e.context)] \o << CloseBracket >>
        ELSE o

\* <Error as Display>::fmt
fmt(e) ==
    LET m == e.message
        o == IF e.operation # NoOperation
             THEN m \o FmtOperation \o e.operation[1] \o << CloseParen >>
             ELSE m
    IN  IF e.context # << >>
        THEN FmtPairs(o \o FmtOpen, e.context, 1) \o << CloseBracket >>
        ELSE o

\* the loop of to_machine_string over the context
RECURSIVE MsPairs(_, _, _)
MsPairs(output, ctx, i) ==
    IF i > Len(ctx) THEN output
    ELSE MsPairs((IF i > 1 THEN output \o << Comma >> ELSE output)
                    \o ctx[i][1] \o << EqualsSign >> \o ctx[i][2],
                 ctx, i + 1)

\* Error::to_machine_string, were the context written before the operation
to_machine_string_context_first(e) ==
    LET m == MsKind \o KindToMachineString(e.kind) \o MsStatus
                 \o StatusToMachineString(e.status) \o MsMessage \o e.message
        c == IF e.context # << >>
             THEN MsPairs(m \o MsContext, e.context, 1) \o << CloseBracket >>
             ELSE m
    IN  IF e.operation # NoOperation THEN c \o MsOperation \o e.operation[1] ELSE c

\* Error::to_machine_string
to_machine_string(e) ==
    LET m == MsKind \o KindToMachineString(e.kind) \o MsStatus
                 \o StatusToMachineString(e.status) \o MsMessage \o e.message
        o == IF e.operation # NoOperation THEN m \o MsOperation \o e.operation[1] ELSE m
    IN  IF e.context # << >>
        THEN MsPairs(o \o MsContext, e.context, 1) \o << CloseBracket >>
        ELSE o

\* the loop of to_json and of write_json over the context
RECURSIVE JsPairs(_, _, _)
JsPairs(json, ctx, i) ==
    IF i > Len(ctx) THEN json
    ELSE LET sep == IF i > 1 THEN json \o << Comma >> ELSE json
             k == write_escaped(sep \o << Quote >>, ctx[i][1])
             v == write_escaped(k \o JsColon, ctx[i][2])
         IN  JsPairs(v \o << Quote >>, ctx, i + 1)

\* Error::write_json(buf), were the buffer cleared before the object is written
write_json_cleared(e, buf) ==
    LET m == write_escaped(JsKind \o KindToMachineString(e.kind) \o JsStatus
                               \o StatusToMachineString(e.status) \o JsMessage,
                           e.message) \o << Quote >>
        o == IF e.operation # NoOperation
             THEN m \o JsOperation \o e.operation[1] \o << Quote >>
             ELSE m
        c == IF e.context # << >>
             THEN JsPairs(o \o JsContext, e.context, 1) \o << CloseBrace >>
             ELSE o
    IN  c \o << CloseBrace >>

\* Error::write_json(buf): the operation is pushed as it is
write_json(e, buf) ==
    LET m == write_escaped(buf \o JsKind \o KindToMachineString(e.kind) \o JsStatus
                               \o StatusToMachineString(e.status) \o JsMessage,
                           e.message) \o << Quote >>
        o == IF e.operation # NoOperation
             THEN m \o JsOperation \o e.operation[1] \o << Quote >>
             ELSE m
        c == IF e.context # << >>
             THEN JsPairs(o \o JsContext, e.context, 1) \o << CloseBrace >>
             ELSE o
    IN  c \o << CloseBrace >>

\* Error::to_json: the statements of write_json on a new String
to_json(e) ==
    LET json == << >>
        m == write_escaped(json \o JsKind \o KindToMachineString(e.kind) \o JsStatus
                                \o StatusToMachineString(e.status) \o JsMessage,
                           e.message) \o << Quote >>
        o == IF e.operation # NoOperation
             THEN m \o JsOperation \o e.operation[1] \o << Quote >>
             ELSE m
        c == IF e.context # << >>
             THEN JsPairs(o \o JsContext, e.context, 1) \o << CloseBrace >>
             ELSE o
    IN  c \o << CloseBrace >>

\* the Strings write_json is given to append to
WriteBufs == { << >>, << CloseBrace, Quote >> }

\* out = err.to_string()
CallDisplay ==
    /\ out' = fmt(err)
    /\ ret' = Ret("fmt", 0, 0, 0, << >>, FALSE, {}, FALSE)
    /\ UNCHANGED << build, nextThreadId, threadId, arenaInit, buffer, crashed, issued,
                    err, ctxLog, orig, treeVars, convVars >>

\* out = err.to_machine_string()
CallToMachineString ==
    /\ out' = to_machine_string(err)
    /\ ret' = Ret("to_machine_string", 0, 0, 0, << >>, FALSE, {}, FALSE)
    /\ UNCHANGED << build, nextThreadId, threadId, arenaInit, buffer, crashed, issued,
                    err, ctxLog, orig, treeVars, convVars >>

\* out = err.to_json()
CallToJson ==
    /\ out' = to_json(err)
    /\ ret' = Ret("to_json", 0, 0, 0, << >>, FALSE, {}, FALSE)
    /\ UNCHANGED << build, nextThreadId, threadId, arenaInit, buffer, crashed, issued,
                    err, ctxLog, orig, treeVars, convVars >>

\* out = buf; err.write_json(&mut out): ret.offset is the length of buf
CallWriteJson(buf) ==
    /\ out' = write_json(err, buf)
    /\ ret' = Ret("write_json", 0, Len(buf), 0, << >>, FALSE, {}, FALSE)
    /\ UNCHANGED << build, nextThreadId, threadId, arenaInit, buffer, crashed, issued,
                    err, ctxLog, orig, treeVars, convVars >>

(***************************************************************************)
(* src/src/convert.rs : From<io::Error> for Error                          *)
(***************************************************************************)
\* the io::ErrorKind values the match names
IoKindsNamed ==
    { "NotFound", "PermissionDenied", "ConnectionRefused", "ConnectionReset",
      "ConnectionAborted", "NotConnected", "AddrInUse", "AddrNotAvailable",
      "BrokenPipe", "AlreadyExists", "WouldBlock", "InvalidInput", "InvalidData",
      "TimedOut", "WriteZero", "Interrupted", "Other", "UnexpectedEof" }

\* some of the io::ErrorKind values that fall to the `_` arm
IoKindsOther == { "Unsupported", "OutOfMemory", "StorageFull" }

IoKinds == IoKindsNamed \cup IoKindsOther

\* an io::Error: its kind() and its to_string()
IoError(kind, text) == [kind |-> kind, text |-> text]

IoTexts == { StrEmpty, StrA, StrAccent }

\* From<io::Error>, were its match the five arms NotFound, TimedOut,
\* PermissionDenied, InvalidInput, InvalidData and the `_` arm
from_io_five_arms(e) ==
    LET ks == CASE e.kind = "NotFound" -> << "NotFound", "Permanent" >>
                [] e.kind = "TimedOut" -> << "Timeout", "Temporary" >>
                [] e.kind = "PermissionDenied" -> << "PermissionDenied", "Permanent" >>
                [] e.kind \in { "InvalidInput", "InvalidData" } ->
                       << "Validation", "Permanent" >>
                [] OTHER -> << "Unexpected", "Persistent" >>
    IN  ErrorNew(ks[1], ks[2], e.text)

\* the match of From<io::Error> on err.kind()
IoKindStatus(k) ==
    CASE k = "NotFound" -> << "NotFound", "Permanent" >>
      [] k = "PermissionDenied" -> << "PermissionDenied", "Permanent" >>
      [] k = "ConnectionRefused" -> << "Unexpected", "Temporary" >>
      [] k = "ConnectionReset" -> << "Unexpected", "Temporary" >>
      [] k = "ConnectionAborted" -> << "Unexpected", "Temporary" >>
      [] k = "NotConnected" -> << "Unexpected", "Temporary" >>
      [] k = "AddrInUse" -> << "Unexpected", "Temporary" >>
      [] k = "AddrNotAvailable" -> << "Unexpected", "Permanent" >>
      [] k = "BrokenPipe" -> << "Unexpected", "Temporary" >>
      [] k = "AlreadyExists" -> << "Unexpected", "Permanent" >>
      [] k = "WouldBlock" -> << "Unexpected", "Temporary" >>
      [] k = "InvalidInput" -> << "Validation", "Permanent" >>
      [] k = "InvalidData" -> << "Validation", "Permanent" >>
      [] k = "TimedOut" -> << "Timeout", "Temporary" >>
      [] k = "WriteZero" -> << "Unexpected", "Temporary" >>
      [] k = "Interrupted" -> << "Unexpected", "Temporary" >>
      [] k = "Other" -> << "Unexpected", "Temporary" >>
      [] k = "UnexpectedEof" -> << "Unexpected", "Temporary" >>
      [] OTHER -> << "Unexpected", "Persistent" >>

\* <Error as From<io::Error>>::from
from_io(e) ==
    LET ks == IoKindStatus(e.kind)
    IN  ErrorNew(ks[1], ks[2], e.text)

\* err = Error::from(ioErr)
CallFromIo ==
    /\ err' = from_io(ioErr)
    /\ ctxLog' = << >>
    /\ ret' = Ret("from_io", 0, 0, 0, << >>, FALSE, {}, FALSE)
    /\ UNCHANGED << build, nextThreadId, threadId, arenaInit, buffer, crashed, issued,
                    orig, out, treeVars, convVars >>

(***************************************************************************)
(* src/src/http.rs : HttpErrorKind                                         *)
(***************************************************************************)
U16Max == 65535

NoHttpKind == [tag |-> "none", code |-> 0]

\* HttpErrorKind::from_status
from_status(status) ==
    IF status = 429 THEN [tag |-> "RateLimited", code |-> 0]
    ELSE IF status \in 400 .. 499 THEN [tag |-> "ClientError", code |-> status]
    ELSE IF status \in 500 .. 599 THEN [tag |-> "ServerError", code |-> status]
    ELSE IF status >= 400 THEN [tag |-> "ClientError", code |-> status]
    ELSE [tag |-> "ServerError", code |-> status]

\* HttpErrorKind::is_client_error
is_client_error(k) == k.tag = "ClientError"

\* HttpErrorKind::is_server_error
is_server_error(k) == k.tag = "ServerError"

\* httpKind = HttpErrorKind::from_status(httpStatus)
CallFromStatus ==
    /\ httpKind' = from_status(httpStatus)
    /\ ret' = Ret("from_status", 0, 0, 0, << >>, FALSE, {}, FALSE)
    /\ UNCHANGED << build, nextThreadId, threadId, arenaInit, buffer, crashed, issued,
                    errorVars, treeVars, ioErr, httpStatus >>

\* httpKind.is_client_error()
CallIsClientError ==
    /\ httpKind # NoHttpKind
    /\ ret' = Ret("is_client_error", 0, 0, 0, << >>, FALSE, {}, is_client_error(httpKind))
    /\ UNCHANGED << build, nextThreadId, threadId, arenaInit, buffer, crashed, issued,
                    errorVars, treeVars, convVars >>

\* httpKind.is_server_error()
CallIsServerError ==
    /\ httpKind # NoHttpKind
    /\ ret' = Ret("is_server_error", 0, 0, 0, << >>, FALSE, {}, is_server_error(httpKind))
    /\ UNCHANGED << build, nextThreadId, threadId, arenaInit, buffer, crashed, issued,
                    errorVars, treeVars, convVars >>

(***************************************************************************)
(* src/src/extract.rs : FrameIter and the queries                          *)
(*                                                                         *)
(* A frame tree (exn::Frame) has frames 1 .. n with frame 1 the root; the  *)
(* parent of a frame has a smaller number and children() lists the         *)
(* children of a frame by increasing number.  The payload of a frame is an *)
(* Error, given by its kind and status, or a value of another type.        *)
(***************************************************************************)
DeepWrappers == 1000        \* the chain of tests::test_deep_recursion_safety

NotError == << "NotError" >>
Payloads == { NotError,
              << "NotFound", "Permanent" >>,
              << "Timeout", "Temporary" >>,
              << "Unexpected", "Persistent" >> }

Tree(n, parent, payload) == [n |-> n, parent |-> parent, payload |-> payload]

ParentMaps(n) == { p \in [1 .. n -> 0 .. n] : p[1] = 0 /\ \A f \in 2 .. n : p[f] \in 1 .. f - 1 }

SmallTrees ==
    UNION { { Tree(n, p, l) : p \in ParentMaps(n), l \in [1 .. n -> Payloads] }
            : n \in 1 .. MaxFrames }

\* DeepWrappers wrappers (Unexpected, Temporary) over a (NotFound, Permanent) base
DeepChain ==
    Tree(DeepWrappers + 1,
         [f \in 1 .. DeepWrappers + 1 |-> f - 1],
         [f \in 1 .. DeepWrappers + 1 |->
             IF f = DeepWrappers + 1 THEN << "NotFound", "Permanent" >>
             ELSE << "Unexpected", "Temporary" >>])

Frames(tr) == 1 .. tr.n

\* Frame::children
children(tr, f) == SelectSeq([c \in 1 .. tr.n |-> c], LAMBDA c : tr.parent[c] = f)

\* frame.as_any().downcast_ref::<Error>() is Some
IsError(tr, f) == tr.payload[f] # NotError

\* the Error that the downcast of frame f yields
FrameError(tr, f) == ErrorNew(tr.payload[f][1], tr.payload[f][2], StrA)

\* FrameIter::new
FrameIterNew(root) == << root >>

\* FrameIter::next, were the children pushed last child first, so that the
\* first child is popped first
next_first_child_first(tr, stk) ==
    IF stk = << >> THEN [some |-> FALSE, frame |-> 0, stack |-> stk]
    ELSE LET frame == stk[Len(stk)]
             cs == children(tr, frame)
         IN  [some  |-> TRUE,
              frame |-> frame,
              stack |-> SubSeq(stk, 1, Len(stk) - 1)
                            \o [i \in 1 .. Len(cs) |-> cs[Len(cs) + 1 - i]]]

\* FrameIter::next, were the frame read from the top of the stack and left there
next_peek(tr, stk) ==
    IF stk = << >> THEN [some |-> FALSE, frame |-> 0, stack |-> stk]
    ELSE [some |-> TRUE, frame |-> stk[Len(stk)], stack |-> stk \o children(tr, stk[Len(stk)])]

\* FrameIter::next, were the children of the popped frame not pushed
next_no_children(tr, stk) ==
    IF stk = << >> THEN [some |-> FALSE, frame |-> 0, stack |-> stk]
    ELSE [some |-> TRUE, frame |-> stk[Len(stk)], stack |-> SubSeq(stk, 1, Len(stk) - 1)]

\* FrameIter::next
next(tr, stk) ==
    IF stk = << >> THEN [some |-> FALSE, frame |-> 0, stack |-> stk]
    ELSE LET frame == stk[Len(stk)]
         IN  [some  |-> TRUE,
              frame |-> frame,
              stack |-> SubSeq(stk, 1, Len(stk) - 1) \o children(tr, frame)]

Queries == { "count_frames", "count_errors", "has_retryable", "has_permanent",
             "is_all_retryable" }
AnyQueries == { "has_retryable", "has_permanent" }

\* the closure given to any() by has_retryable, were a payload of another
\* type taken for a retryable Error
RetryableOrForeign(tr, f) == ~IsError(tr, f) \/ is_retryable(FrameError(tr, f))

\* the closure given to any() by has_retryable:
\* downcast_ref::<Error>().is_some_and(|e| e.is_retryable())
RetryablePred(tr, f) == IsError(tr, f) /\ is_retryable(FrameError(tr, f))

\* the closure given to any() by has_permanent
PermanentPred(tr, f) == IsError(tr, f) /\ is_permanent(FrameError(tr, f))

\* the closure given to all() by is_all_retryable, were a payload of another
\* type to fail it: downcast_ref::<Error>().is_some_and(..)
AllRetryableStrict(tr, f) == IsError(tr, f) /\ is_retryable(FrameError(tr, f))

\* the closure given to all() by is_all_retryable:
\* downcast_ref::<Error>().is_none_or(|e| e.is_retryable())
AllRetryablePred(tr, f) == ~IsError(tr, f) \/ is_retryable(FrameError(tr, f))

NoResult == [query |-> "none", value |-> FALSE]

\* a query is called on the tree: FrameIter::new(exn.as_frame())
StartQuery(q) ==
    /\ pc = "idle"
    /\ pc' = q
    /\ stack' = FrameIterNew(1)
    /\ yielded' = << >>
    /\ UNCHANGED << tree, result, arenaVars, errorVars, convVars >>

\* whether the consumer (count, any, all) stops at frame f
StopsAt(q, tr, f) ==
    \/ q = "has_retryable" /\ RetryablePred(tr, f)
    \/ q = "has_permanent" /\ PermanentPred(tr, f)
    \/ q = "is_all_retryable" /\ ~AllRetryablePred(tr, f)

\* next() returns Some(frame) and the consumer goes on
IterStep ==
    /\ pc \in Queries
    /\ LET n == next(tree, stack)
       IN  /\ n.some
           /\ ~StopsAt(pc, tree, n.frame)
           /\ stack' = n.stack
           /\ yielded' = Append(yielded, n.frame)
    /\ UNCHANGED << tree, pc, result, arenaVars, errorVars, convVars >>

\* next() returns Some(frame) and any() / all() returns at once
IterExit ==
    /\ pc \in Queries
    /\ LET n == next(tree, stack)
       IN  /\ n.some
           /\ StopsAt(pc, tree, n.frame)
           /\ stack' = n.stack
           /\ yielded' = Append(yielded, n.frame)
    /\ result' = [query |-> pc, value |-> (pc \in AnyQueries)]
    /\ pc' = "done"
    /\ UNCHANGED << tree, arenaVars, errorVars, convVars >>

\* next() returns None: count() returns the number of frames it saw,
\* any() returns false, all() returns true
IterEnd ==
    /\ pc \in Queries
    /\ ~next(tree, stack).some
    /\ result' = [query |-> pc,
                  value |-> IF pc \in { "count_frames", "count_errors" } THEN Len(yielded)
                            ELSE pc = "is_all_retryable"]
    /\ pc' = "done"
    /\ UNCHANGED << tree, stack, yielded, arenaVars, errorVars, convVars >>

\* any() / all() over FrameIter, run to its end: the value the query returns
RECURSIVE Answer(_, _, _)
Answer(q, tr, stk) ==
    LET n == next(tr, stk)
    IN  IF ~n.some THEN q = "is_all_retryable"
        ELSE IF StopsAt(q, tr, n.frame) THEN q \in AnyQueries
        ELSE Answer(q, tr, n.stack)

\* extract::has_retryable
has_retryable(tr) == Answer("has_retryable", tr, FrameIterNew(1))

\* extract::has_permanent
has_permanent(tr) == Answer("has_permanent", tr, FrameIterNew(1))

\* extract::is_all_retryable
is_all_retryable(tr) == Answer("is_all_retryable", tr, FrameIterNew(1))

(***************************************************************************)
(* Specifications                                                          *)
(***************************************************************************)
InitArenaState ==
    /\ nextThreadId = 1
    /\ threadId = [t \in Threads |-> NoId]
    /\ arenaInit = [t \in Threads |-> FALSE]
    /\ buffer = [t \in Threads |-> ArenaNew]
    /\ crashed = {}
    /\ issued = {}
    /\ ret = NoRet

InitErrorVars ==
    /\ err = ErrorNew("NotFound", "Permanent", StrA)
    /\ ctxLog = << >>
    /\ orig = err
    /\ out = << >>

InitTreeVars ==
    /\ pc = "idle"
    /\ stack = << >>
    /\ yielded = << >>
    /\ result = NoResult

InitArenaVars == build \in Builds /\ InitArenaState

InitConvVars ==
    /\ ioErr = IoError("Other", StrA)
    /\ httpStatus = 0
    /\ httpKind = NoHttpKind

OneFrame == Tree(1, [f \in 1 .. 1 |-> 0], [f \in 1 .. 1 |-> NotError])

Init == InitArenaVars /\ InitErrorVars /\ InitTreeVars /\ InitConvVars /\ tree = OneFrame

\* the queries use no arena: one build profile is enough
InitTree ==
    /\ build = "release"
    /\ InitArenaState /\ InitErrorVars /\ InitTreeVars /\ InitConvVars
    /\ tree \in SmallTrees \cup { DeepChain }

NextArena ==
    \/ \E t \in Threads, pairs \in PairSeqs : commit_to_arena(t, pairs)
    \/ \E t \in Threads : CallClear(t)
    \/ \E t \in Threads : \E offset \in ProbeOffsets(t), len \in ProbeLens :
          CallGetPairs(t, offset, len)
    \/ \E t \in Threads, h \in issued : Resolve(t, h)
    \/ \E t \in Threads, inner \in NestedCalls : CallNested(t, inner)

\* a thread commits one pair to its arena
CommitOne == \E t \in Threads : commit_to_arena(t, << << StrEmpty, StrA >> >>)

\* the threads working side by side, each commit of one pair
NextThreads ==
    \/ \E t \in Threads, p \in PairPool : commit_to_arena(t, << p >>)
    \/ \E t \in Threads : CallClear(t)
    \/ \E t \in Threads : CallGetPairs(t, 0, 1)
    \/ \E t \in Threads, h \in issued : Resolve(t, h)
    \/ \E t \in Threads : CallNested(t, "commit_to_arena")

NextError ==
    \/ \E kind \in Kinds, status \in Statuses, message \in Messages :
          CallErrorNew(kind, status, message)
    \/ \E t \in Threads, p \in PairPool : CallWithContext(t, p[1], p[2])
    \/ \E op \in { StrA } : CallWithOperation(op)
    \/ CallIsRetryable

\* the errors of the clone and equality calls
ValueErrors == { << "NotFound", "Permanent", StrA >>, << "Timeout", "Permanent", StrA >>,
                 << "NotFound", "Temporary", StrA >>, << "NotFound", "Permanent", StrAccent >> }

NextValue ==
    \/ \E a \in ValueErrors : CallErrorNew(a[1], a[2], a[3])
    \/ \E p \in PairPool : CallWithContext(1, p[1], p[2])
    \/ \E op \in { StrA } : CallWithOperation(op)
    \/ CallClone
    \/ CallEq
    \/ CallSource

\* the strings of the errors that are rendered: plain ones, one with the
\* characters write_escaped treats, and an operation that holds quotes
RenderMessages == { << 97 >>, << Quote, Backslash, LineFeed, CarriageReturn, Tab, 1, 127 >> }
RenderOperations ==
    { NoOperation,
      << << 111, 112 >> >>,                                                 \* op
      << << 120, 34, 44, 34, 107, 105, 110, 100, 34, 58, 34, 121 >> >> }    \* x","kind":"y
RenderPairs == { << << 107 >>, << 118 >> >>, << << Quote >>, << Backslash, 1 >> >> }

RECURSIVE WithContexts(_, _, _)
WithContexts(e, ps, i) ==
    IF i > Len(ps) THEN e
    ELSE WithContexts(with_context(e, ps[i][1], ps[i][2]), ps, i + 1)

\* Error::new(..), then with_operation(..) if o is one, then with_context(..) for each pair
Built(kind, status, message, o, ps) ==
    WithContexts(IF o = NoOperation THEN ErrorNew(kind, status, message)
                 ELSE with_operation(ErrorNew(kind, status, message), o[1]),
                 ps, 1)

RenderErrors ==
    { Built(kind, status, message, o, ps) :
        kind \in Kinds, status \in Statuses, message \in RenderMessages,
        o \in RenderOperations, ps \in SeqsUpTo(RenderPairs, MaxCtx) }

\* an error was built and is about to be rendered
InitRender ==
    /\ build = "release"
    /\ InitArenaState /\ InitTreeVars /\ InitConvVars /\ tree = OneFrame
    /\ err \in RenderErrors
    /\ ctxLog = context(err)
    /\ orig = err
    /\ out = << >>

NextRender ==
    \/ CallDisplay
    \/ CallToMachineString
    \/ CallToJson
    \/ \E buf \in WriteBufs : CallWriteJson(buf)

\* an io::Error is at hand
InitIo ==
    /\ build = "release"
    /\ InitArenaState /\ InitErrorVars /\ InitTreeVars /\ tree = OneFrame
    /\ ioErr \in { IoError(k, x) : k \in IoKinds, x \in IoTexts }
    /\ httpStatus = 0
    /\ httpKind = NoHttpKind

NextIo ==
    \/ CallFromIo
    \/ CallIsRetryable

\* a status code is at hand
InitHttp ==
    /\ build = "release"
    /\ InitArenaState /\ InitErrorVars /\ InitTreeVars /\ tree = OneFrame
    /\ ioErr = IoError("Other", StrA)
    /\ httpStatus \in 0 .. U16Max
    /\ httpKind = NoHttpKind

NextHttp ==
    \/ CallFromStatus
    \/ CallIsClientError
    \/ CallIsServerError

\* every frame tree of at most MaxFrames frames
InitSmallTree ==
    /\ build = "release"
    /\ InitArenaState /\ InitErrorVars /\ InitTreeVars /\ InitConvVars
    /\ tree \in SmallTrees

NextTree ==
    \/ \E q \in Queries : StartQuery(q)
    \/ IterStep
    \/ IterExit
    \/ IterEnd

Next == NextArena \/ NextError \/ NextValue \/ NextRender \/ NextIo \/ NextHttp \/ NextTree

\* the arena on its own
SpecArena == Init /\ [][NextArena]_vars

\* the arenas of the threads under every interleaving of their calls
SpecThreads == Init /\ [][NextThreads]_vars

\* Error values, with the arenas of the threads that build them
SpecError == Init /\ [][NextError \/ CommitOne]_vars

\* Error values that are cloned, extended and compared
SpecValue == Init /\ [][NextValue]_vars

\* the program goes on building, cloning and inspecting errors
FairValue == SpecValue /\ WF_vars(NextValue)

\* the renderings of every built error
SpecRender == InitRender /\ [][NextRender]_vars

\* the conversion of every io::Error
SpecIo == InitIo /\ [][NextIo]_vars

\* from_status on every u16
SpecHttp == InitHttp /\ [][NextHttp]_vars

\* the queries on every small frame tree and on the deep chain
SpecTree == InitTree /\ [][NextTree]_vars

\* the queries on every small frame tree
SpecSmallTree == InitSmallTree /\ [][NextTree]_vars

\* a query that was called keeps running: its loop is sequential code
FairTree == SpecTree /\ WF_vars(IterStep \/ IterExit \/ IterEnd)

Spec == Init /\ [][Next]_vars

(***************************************************************************)
(* Properties                                                              *)
(***************************************************************************)
IsPrefix(a, b) == Len(a) <= Len(b) /\ a = SubSeq(b, 1, Len(a))

\* C1: after N with_context(k_i, v_i) calls on an error that had no context,
\* context() has exactly N pairs and its i-th pair is (k_i, v_i): insertion
\* order is kept and nothing is dropped, merged or de-duplicated.
C1_ContextKeepsEveryPair ==
    /\ Len(context(err)) = Len(ctxLog)
    /\ \A i \in 1 .. Len(ctxLog) : context(err)[i] = ctxLog[i]

\* C1 witness: MaxCtx calls were made and two of them gave the same key
C1_Witness ==
    /\ ret.op = "with_context"
    /\ Len(ctxLog) = MaxCtx
    /\ \E i, j \in 1 .. Len(ctxLog) : i < j /\ ctxLog[i][1] = ctxLog[j][1]

\* C2: Error::is_retryable() is true if and only if the status is Temporary,
\* for every kind, also when ErrorKind::is_retryable() says otherwise.
C2_RetryableIffTemporary ==
    /\ \A k \in Kinds, s \in Statuses :
          is_retryable(ErrorNew(k, s, StrA)) = (s = "Temporary")
    /\ ret.op = "is_retryable" => ret.val = (err.status = "Temporary")

\* C2 witness: is_retryable() was called on a Permanent error of kind Timeout
C2_Witness ==
    /\ ret.op = "is_retryable"
    /\ err.kind = "Timeout"
    /\ err.status = "Permanent"
    /\ KindIsRetryable(err.kind)
    /\ ~ret.val

\* C3: a handle made by commit_to_arena on thread T resolves on T, with no
\* clear() in between, to exactly the committed pairs in order; on any other
\* thread it resolves to the empty sequence without reading that thread's arena.
C3_HandleResolvesOnOwner ==
    ret.op = "resolve" =>
        \A h \in ret.recs :
            /\ (h.owner = ret.thread /\ ~h.stale) => (~ret.panicked /\ ret.pairs = h.pairs)
            /\ (h.owner # ret.thread) => (~ret.panicked /\ ret.pairs = << >> /\ ~ret.val)

\* C4: after a clear(), also after later push_pairs calls, get_pairs on an
\* (offset, len) that push_pairs returned before the clear yields a prefix of
\* the pairs written at that handle, and does not crash.
C4_StaleReadIsPrefix ==
    ret.op = "get_pairs" =>
        \A h \in ret.recs :
            h.stale => (~ret.panicked /\ IsPrefix(ret.pairs, h.pairs))

\* the pairs of a buffer that are complete from position pos on, at most left of them
RECURSIVE WholePairs(_, _, _)
WholePairs(buf, pos, left) ==
    IF left = 0 \/ pos + LenBytes > Len(buf) THEN << >>
    ELSE LET kl == FromLeBytes(SubSeq(buf, pos + 1, pos + LenBytes))
             vp == pos + LenBytes + kl
         IN  IF vp + LenBytes > Len(buf) THEN << >>
             ELSE LET vl == FromLeBytes(SubSeq(buf, vp + 1, vp + LenBytes))
                      e == vp + LenBytes + vl
                  IN  IF e > Len(buf) THEN << >>
                      ELSE << << Utf8Lossy(SubSeq(buf, pos + LenBytes + 1, vp)),
                                 Utf8Lossy(SubSeq(buf, vp + LenBytes + 1, e)) >> >>
                           \o WholePairs(buf, e, left - 1)

\* C5: for every buffer and every (offset, len), get_pairs stops where a
\* length prefix or a body would pass the end of the buffer and returns the
\* pairs decoded so far, at most len of them.
C5_GetPairsStopsAtEnd ==
    ret.op = "get_pairs" =>
        /\ ~ret.panicked
        /\ Len(ret.pairs) <= ret.len
        /\ ret.pairs = WholePairs(buffer[ret.thread], ret.offset, ret.len)

\* a step of with_context: one more pair is in the log
WithContextStep == Len(ctxLog') = Len(ctxLog) + 1

CountQueries == { "count_frames", "count_errors" }
Finished(q) == pc = "done" /\ result.query = q

\* C7: count_frames and count_errors return the number of frames of the
\* tree, the root included, whatever the payloads, depth and branching.
C7_CountIsNumberOfFrames ==
    \A q \in CountQueries : Finished(q) => result.value = Cardinality(Frames(tree))

\* C7 witness: count_errors returned MaxFrames on a tree where the root has
\* two children, one of them with a child, and a frame is no Error
C7_Witness ==
    /\ Finished("count_errors")
    /\ result.value = MaxFrames
    /\ Len(children(tree, 1)) = 2
    /\ \E f \in Frames(tree) : f # 1 /\ children(tree, f) # << >>
    /\ \E f \in Frames(tree) : tree.payload[f] = NotError

HasErrorWithStatus(tr, s) ==
    \E f \in Frames(tr) : tr.payload[f] # NotError /\ tr.payload[f][2] = s

\* C8: has_retryable (has_permanent) is true if and only if some frame of
\* the tree carries an Error whose status is Temporary (Permanent).
C8_AnyQueries ==
    /\ Finished("has_retryable") => result.value = HasErrorWithStatus(tree, "Temporary")
    /\ Finished("has_permanent") => result.value = HasErrorWithStatus(tree, "Permanent")

\* C8 witness: has_retryable found nothing in a tree that has frames with
\* another payload next to Error frames
C8_Witness ==
    /\ Finished("has_retryable")
    /\ ~result.value
    /\ tree.n = MaxFrames
    /\ \E f \in Frames(tree) : tree.payload[f] = NotError
    /\ \E f \in Frames(tree) : tree.payload[f] # NotError

\* C9: is_all_retryable is true if and only if every frame that carries an
\* Error has status Temporary; frames with another payload are ignored.
C9_AllRetryable ==
    Finished("is_all_retryable") =>
        result.value = (\A f \in Frames(tree) :
                           tree.payload[f] # NotError => tree.payload[f][2] = "Temporary")

\* C9 witness: is_all_retryable is true of a tree with Temporary errors and
\* frames with another payload
C9_Witness ==
    /\ Finished("is_all_retryable")
    /\ result.value
    /\ tree.n = MaxFrames
    /\ \E f \in Frames(tree) : tree.payload[f] = NotError
    /\ \E f \in Frames(tree) : tree.payload[f] # NotError

NoFrameTwice(s) == Cardinality({ s[i] : i \in 1 .. Len(s) }) = Len(s)

\* C10: every query that was called returns; next() never yields a frame
\* twice, and a count has seen Some once per frame and then None with the
\* stack empty.
C10_TraversalTerminates ==
    /\ [](NoFrameTwice(yielded) /\ Len(yielded) <= tree.n)
    /\ [](\A q \in CountQueries :
            Finished(q) => (Len(yielded) = tree.n /\ stack = << >>))
    /\ (pc \in Queries) ~> (pc = "done")

\* C10 witness: has_permanent returned on the deep chain, at its last frame
C10_Witness ==
    /\ Finished("has_permanent")
    /\ tree = DeepChain
    /\ result.value
    /\ Len(yielded) = DeepWrappers + 1

\* C11: with no clear() in between, get_pairs(offset, len) of every earlier
\* push returns exactly the pairs given to that push, in order; a later push
\* never changes the bytes already in the buffer; and the buffer's length
\* never decreases except by clear().
C11_PushedPairsStay ==
    /\ [](ret.op = "get_pairs" =>
            \A h \in ret.recs : ~h.stale => (~ret.panicked /\ ret.pairs = h.pairs))
    /\ [][\A t \in Threads :
            ~(ret'.op = "clear" /\ ret'.thread = t) => IsPrefix(buffer[t], buffer'[t])]_vars

\* a commit_to_arena call (and the push_pairs call in it) returned
CommitStep == ret'.op = "commit_to_arena" /\ issued' # issued

\* the bytes the claim gives a slice of pairs: 2 * 4 + |key| + |value| each
RECURSIVE ClaimedSize(_, _)
ClaimedSize(pairs, i) ==
    IF i > Len(pairs) THEN 0
    ELSE 2 * LenBytes + Len(pairs[i][1]) + Len(pairs[i][2]) + ClaimedSize(pairs, i + 1)

\* from position pos to its end, buf holds the pairs i .. Len(pairs), each as
\* a little-endian key length, the key, a little-endian value length, the value
RECURSIVE LaidOut(_, _, _, _)
LaidOut(buf, pos, pairs, i) ==
    IF i > Len(pairs) THEN pos = Len(buf)
    ELSE LET k == pairs[i][1]
             v == pairs[i][2]
             kp == pos + LenBytes
             vp == kp + Len(k) + LenBytes
             e == vp + Len(v)
         IN  /\ e <= Len(buf)
             /\ FromLeBytes(SubSeq(buf, pos + 1, kp)) = Len(k)
             /\ SubSeq(buf, kp + 1, kp + Len(k)) = k
             /\ FromLeBytes(SubSeq(buf, kp + Len(k) + 1, vp)) = Len(v)
             /\ SubSeq(buf, vp + 1, e) = v
             /\ LaidOut(buf, e, pairs, i + 1)

\* C12: every push_pairs call returns (offset, len) with offset the buffer
\* length before the call and len the number of pairs, and appends for each
\* pair a 4-byte little-endian key length, the key bytes, a 4-byte
\* little-endian value length and the value bytes: the buffer grows by the
\* sum of 8 + |key| + |value|, and the regions of two calls never overlap.
C12_PushAppendsFramedPairs ==
    [][CommitStep =>
        LET t == ret'.thread
            pairs == ret'.pairs
        IN  /\ ret'.offset = Len(buffer[t])
            /\ ret'.len = Len(pairs)
            /\ IsPrefix(buffer[t], buffer'[t])
            /\ Len(buffer'[t]) = Len(buffer[t]) + ClaimedSize(pairs, 1)
            /\ LaidOut(buffer'[t], ret'.offset, pairs, 1)
            /\ \A h \in issued :
                  (h.owner = t /\ ~h.stale) =>
                      h.offset + ClaimedSize(h.pairs, 1) <= ret'.offset]_vars

\* C13: each thread has one arena, created on its first use, and under every
\* interleaving an operation of one thread changes neither the content nor
\* the length of another thread's buffer, nor creates another thread's arena.
C13_ArenasAreThreadLocal ==
    /\ [](DOMAIN buffer = Threads /\ \A u \in Threads : ~arenaInit[u] => buffer[u] = ArenaNew)
    /\ [][\A u \in Threads :
            /\ arenaInit[u] => arenaInit'[u]
            /\ (buffer'[u] # buffer[u] \/ arenaInit'[u] # arenaInit[u]) => ret'.thread = u]_vars

\* C13 witness: both threads wrote to their arenas, the last to write found
\* the other's pairs in place
C13_Witness ==
    /\ ret.op = "commit_to_arena"
    /\ \A u \in Threads : arenaInit[u] /\ buffer[u] # ArenaNew
    /\ \E u \in Threads : buffer[u] # buffer[ret.thread]

\* C16: no sequence of arena operations panics: push_pairs, get_pairs with
\* any offset and len, clear, commit_to_arena, and commit_to_arena or
\* with_arena called inside the closure of with_arena on the same thread.
C16_ArenaNeverPanics == ~ret.panicked /\ crashed = {}

\* the four fields of an Error other than its context
SameHead(a, b) ==
    /\ a.kind = b.kind
    /\ a.status = b.status
    /\ a.message = b.message
    /\ a.operation = b.operation

\* C14: with_context is a functional update: for an Error e and a clone c of
\* e, c.with_context(k, v) leaves e as it was in kind, status, message,
\* operation and context(), and the error returned has the kind, status,
\* message and operation of c.
C14_WithContextIsFunctional ==
    [][WithContextStep =>
        /\ orig' = orig
        /\ context(orig') = context(orig)
        /\ SameHead(err', err)
        /\ err' # err]_vars

\* C14 witness: e was cloned with an operation and a pair set, and the clone
\* got one more pair
C14_Witness ==
    /\ ret.op = "with_context"
    /\ orig.operation # NoOperation
    /\ context(orig) # << >>
    /\ SameHead(err, orig)
    /\ Len(context(err)) = Len(context(orig)) + 1
    /\ IsPrefix(context(orig), context(err))

\* C15: equality of Error depends on kind, status, message and operation
\* only: two errors that agree on the four are equal whatever their
\* contexts, and two that differ in one of the four are unequal.
C15_EqIgnoresContext == ret.op = "eq" => ret.val = SameHead(err, orig)

\* C15, amended: equality of Error compares the five fields, the context
\* too: two errors are equal exactly when they agree on kind, status,
\* message and operation and hold the same pairs in the same order.
C15_EqComparesContext ==
    ret.op = "eq" => ret.val = (SameHead(err, orig) /\ context(err) = context(orig))

\* C15 witness: two errors that agree on the four fields and hold different
\* contexts were compared and found unequal
C15_Witness ==
    /\ ret.op = "eq"
    /\ SameHead(err, orig)
    /\ context(err) # context(orig)
    /\ ~ret.val

\* the pairs written one after the other as k, kv, v and joined by sep
RECURSIVE Joined(_, _, _)
Joined(pairs, kv, sep) ==
    IF pairs = << >> THEN << >>
    ELSE LET n == Len(pairs)
             last == pairs[n][1] \o kv \o pairs[n][2]
         IN  IF n = 1 THEN last
             ELSE Joined(SubSeq(pairs, 1, n - 1), kv, sep) \o sep \o last

\* C17: to_machine_string() is exactly kind=<machine-kind>;status=<machine-
\* status>;message=<message>, then ;operation=<op> if and only if an
\* operation is set, then ;context=[k1=v1,k2=v2,...] if and only if the
\* context is not empty, the operation before the context, nothing escaped.
C17_MachineString ==
    ret.op = "to_machine_string" =>
        out = MsKind \o KindToMachineString(err.kind)
                \o MsStatus \o StatusToMachineString(err.status)
                \o MsMessage \o err.message
                \o (IF err.operation # NoOperation
                    THEN MsOperation \o err.operation[1] ELSE << >>)
                \o (IF context(err) # << >>
                    THEN MsContext \o Joined(context(err), << EqualsSign >>, << Comma >>)
                             \o << CloseBracket >>
                    ELSE << >>)

\* C17 witness: the machine string of an error with an operation and two
\* pairs, with characters that an escaping would have changed
C17_Witness ==
    /\ ret.op = "to_machine_string"
    /\ err.operation # NoOperation
    /\ Len(context(err)) = 2
    /\ \E i \in 1 .. Len(err.message) : err.message[i] = Quote
    /\ \E i \in 1 .. Len(out) : out[i] = LineFeed

\* C20: Display writes the message, then " (operation: <op>)" if and only if
\* an operation is set, then " [k1: v1, k2: v2, ...]" if and only if the
\* context is not empty, the pairs in stored order and separated by ", ".
C20_Display ==
    ret.op = "fmt" =>
        out = err.message
                \o (IF err.operation # NoOperation
                    THEN FmtOperation \o err.operation[1] \o << CloseParen >> ELSE << >>)
                \o (IF context(err) # << >>
                    THEN FmtOpen \o Joined(context(err), FmtColon, FmtSep)
                             \o << CloseBracket >>
                    ELSE << >>)

\* C20 witness: an error with an operation and two different pairs was displayed
C20_Witness ==
    /\ ret.op = "fmt"
    /\ err.operation # NoOperation
    /\ Len(context(err)) = 2
    /\ context(err)[1] # context(err)[2]
    /\ out # err.message

(***************************************************************************)
(* Reading a JSON text (RFC 8259) of the shape to_json writes: an object   *)
(* whose values are strings or objects of strings, with no white space.    *)
(***************************************************************************)
NoParse == [ok |-> FALSE, val |-> << >>, next |-> 0]

At(s, i, c) == i <= Len(s) /\ s[i] = c

IsHexDigit(c) == c \in 48 .. 57 \/ c \in 97 .. 102 \/ c \in 65 .. 70

HexValue(c) == IF c <= 57 THEN c - 48 ELSE IF c >= 97 THEN c - 87 ELSE c - 55

\* the characters of a JSON string whose opening quote is before position i
RECURSIVE JsonChars(_, _, _)
JsonChars(s, i, acc) ==
    IF i > Len(s) THEN NoParse
    ELSE IF s[i] = Quote THEN [ok |-> TRUE, val |-> acc, next |-> i + 1]
    ELSE IF s[i] < 32 THEN NoParse
    ELSE IF s[i] # Backslash THEN JsonChars(s, i + 1, Append(acc, s[i]))
    ELSE IF i + 1 > Len(s) THEN NoParse
    ELSE LET c == s[i + 1]
         IN  IF c \in { Quote, Backslash, 47 } THEN JsonChars(s, i + 2, Append(acc, c))
             ELSE IF c = LetterN THEN JsonChars(s, i + 2, Append(acc, LineFeed))
             ELSE IF c = LetterR THEN JsonChars(s, i + 2, Append(acc, CarriageReturn))
             ELSE IF c = LetterT THEN JsonChars(s, i + 2, Append(acc, Tab))
             ELSE IF c = 98 THEN JsonChars(s, i + 2, Append(acc, 8))
             ELSE IF c = 102 THEN JsonChars(s, i + 2, Append(acc, 12))
             ELSE IF c = LetterU /\ i + 5 <= Len(s)
                     /\ \A j \in i + 2 .. i + 5 : IsHexDigit(s[j])
                  THEN JsonChars(s, i + 6,
                           Append(acc, HexValue(s[i + 2]) * 4096 + HexValue(s[i + 3]) * 256
                                        + HexValue(s[i + 4]) * 16 + HexValue(s[i + 5])))
             ELSE NoParse

\* a JSON string at position i
JsonString(s, i) == IF At(s, i, Quote) THEN JsonChars(s, i + 1, << >>) ELSE NoParse

\* the members "key":"value" of an object of strings, the first at position i
RECURSIVE JsonPairs(_, _, _)
JsonPairs(s, i, acc) ==
    LET k == JsonString(s, i)
    IN  IF ~k.ok \/ ~At(s, k.next, Colon) THEN NoParse
        ELSE LET v == JsonString(s, k.next + 1)
                 all == Append(acc, << k.val, v.val >>)
             IN  IF ~v.ok THEN NoParse
                 ELSE IF At(s, v.next, CloseBrace)
                      THEN [ok |-> TRUE, val |-> all, next |-> v.next + 1]
                 ELSE IF At(s, v.next, Comma) THEN JsonPairs(s, v.next + 1, all)
                 ELSE NoParse

\* an object of strings at position i
JsonStringObject(s, i) ==
    IF ~At(s, i, OpenBrace) THEN NoParse
    ELSE IF At(s, i + 1, CloseBrace) THEN [ok |-> TRUE, val |-> << >>, next |-> i + 2]
    ELSE JsonPairs(s, i + 1, << >>)

\* the members of the outer object, the first at position i; a member is
\* [key, isObject, str, pairs]
RECURSIVE JsonMembers(_, _, _)
JsonMembers(s, i, acc) ==
    LET k == JsonString(s, i)
    IN  IF ~k.ok \/ ~At(s, k.next, Colon) THEN NoParse
        ELSE LET isObject == At(s, k.next + 1, OpenBrace)
                 v == IF isObject THEN JsonStringObject(s, k.next + 1)
                      ELSE JsonString(s, k.next + 1)
                 all == Append(acc, [key |-> k.val, isObject |-> isObject,
                                     str |-> IF isObject THEN << >> ELSE v.val,
                                     pairs |-> IF isObject THEN v.val ELSE << >>])
             IN  IF ~v.ok THEN NoParse
                 ELSE IF At(s, v.next, CloseBrace)
                      THEN [ok |-> TRUE, val |-> all, next |-> v.next + 1]
                 ELSE IF At(s, v.next, Comma) THEN JsonMembers(s, v.next + 1, all)
                 ELSE NoParse

\* the members of the JSON object that is the whole of s
JsonObject(s) ==
    LET r == IF ~At(s, 1, OpenBrace) THEN NoParse
             ELSE IF At(s, 2, CloseBrace) THEN [ok |-> TRUE, val |-> << >>, next |-> 3]
             ELSE JsonMembers(s, 2, << >>)
    IN  IF r.ok /\ r.next = Len(s) + 1 THEN r ELSE NoParse

KeyKind == << 107, 105, 110, 100 >>                                    \* kind
KeyStatus == << 115, 116, 97, 116, 117, 115 >>                         \* status
KeyMessage == << 109, 101, 115, 115, 97, 103, 101 >>                   \* message
KeyOperation == << 111, 112, 101, 114, 97, 116, 105, 111, 110 >>       \* operation
KeyContext == << 99, 111, 110, 116, 101, 120, 116 >>                   \* context

\* C18: the object written by to_json() has the keys kind, status and
\* message exactly once and in that order, the key operation if and only if
\* an operation is set, and the key context if and only if the context is
\* not empty; the context object lists the pairs in their stored order.
C18_JsonKeys ==
    ret.op = "to_json" =>
        LET obj == JsonObject(out)
            keys == [i \in 1 .. Len(obj.val) |-> obj.val[i].key]
        IN  /\ obj.ok
            /\ keys = << KeyKind, KeyStatus, KeyMessage >>
                        \o (IF err.operation # NoOperation THEN << KeyOperation >> ELSE << >>)
                        \o (IF context(err) # << >> THEN << KeyContext >> ELSE << >>)
            /\ context(err) # << >> =>
                  /\ obj.val[Len(obj.val)].isObject
                  /\ obj.val[Len(obj.val)].pairs = context(err)

\* the text written by the last to_json or write_json call
Written == SubSeq(out, ret.offset + 1, Len(out))

\* C19: in the output of to_json() and of write_json() every string value
\* (the message, the operation, every context key and value) is JSON-escaped,
\* so that the text is a JSON object whose strings read back as the
\* message, the operation and the context pairs of the error.
C19_JsonStringsEscaped ==
    ret.op \in { "to_json", "write_json" } =>
        LET obj == JsonObject(Written)
            strs == SelectSeq(obj.val, LAMBDA m : ~m.isObject)
            objs == SelectSeq(obj.val, LAMBDA m : m.isObject)
        IN  /\ obj.ok
            /\ [i \in 1 .. Len(strs) |-> strs[i].str] =
                   << KindToMachineString(err.kind), StatusToMachineString(err.status),
                      err.message >>
                   \o (IF err.operation # NoOperation THEN << err.operation[1] >> ELSE << >>)
            /\ [i \in 1 .. Len(objs) |-> objs[i].pairs] =
                   IF context(err) # << >> THEN << context(err) >> ELSE << >>

C22_IoTableOfFive ==
    ret.op = "from_io" =>
        /\ << err.kind, err.status >> =
              IF ioErr.kind = "NotFound" THEN << "NotFound", "Permanent" >>
              ELSE IF ioErr.kind = "TimedOut" THEN << "Timeout", "Temporary" >>
              ELSE IF ioErr.kind = "PermissionDenied"
                   THEN << "PermissionDenied", "Permanent" >>
              ELSE IF ioErr.kind \in { "InvalidInput", "InvalidData" }
                   THEN << "Validation", "Permanent" >>
              ELSE << "Unexpected", "Persistent" >>
        /\ err.operation = NoOperation
        /\ context(err) = << >>

\* the io kinds that From<io::Error> gives (Unexpected, Temporary)
IoTemporary ==
    { "ConnectionRefused", "ConnectionReset", "ConnectionAborted", "NotConnected",
      "AddrInUse", "BrokenPipe", "WouldBlock", "WriteZero", "Interrupted", "Other",
      "UnexpectedEof" }

\* C22, amended: the five kinds map as the claim says; ConnectionRefused,
\* ConnectionReset, ConnectionAborted, NotConnected, AddrInUse, BrokenPipe,
\* WouldBlock, WriteZero, Interrupted, Other and UnexpectedEof give
\* (Unexpected, Temporary); AddrNotAvailable and AlreadyExists give
\* (Unexpected, Permanent); every other io kind gives (Unexpected,
\* Persistent); the message is the io error's text and the Error has no
\* operation and no context.
C22_IoTable ==
    ret.op = "from_io" =>
        /\ ioErr.kind = "NotFound" => << err.kind, err.status >> = << "NotFound", "Permanent" >>
        /\ ioErr.kind = "TimedOut" => << err.kind, err.status >> = << "Timeout", "Temporary" >>
        /\ ioErr.kind = "PermissionDenied" =>
              << err.kind, err.status >> = << "PermissionDenied", "Permanent" >>
        /\ ioErr.kind \in { "InvalidInput", "InvalidData" } =>
              << err.kind, err.status >> = << "Validation", "Permanent" >>
        /\ ioErr.kind \in IoTemporary =>
              << err.kind, err.status >> = << "Unexpected", "Temporary" >>
        /\ ioErr.kind \in { "AddrNotAvailable", "AlreadyExists" } =>
              << err.kind, err.status >> = << "Unexpected", "Permanent" >>
        /\ ioErr.kind \in IoKindsOther =>
              << err.kind, err.status >> = << "Unexpected", "Persistent" >>
        /\ err.message = ioErr.text
        /\ err.operation = NoOperation
        /\ context(err) = << >>

\* C22 witness: a ConnectionRefused error was converted and is retryable
C22_Witness ==
    /\ ret.op = "is_retryable"
    /\ ret.val
    /\ ioErr.kind = "ConnectionRefused"
    /\ err = from_io(ioErr)
    /\ err.kind = "Unexpected"

\* C23: for every 16-bit status code s, from_status(s).is_server_error() is
\* true only if 500 <= s <= 599, and from_status(s).is_client_error() is
\* true only if 400 <= s <= 499.
C23_HttpRanges ==
    httpKind # NoHttpKind =>
        /\ (ret.op = "is_server_error" /\ ret.val) => httpStatus \in 500 .. 599
        /\ (ret.op = "is_client_error" /\ ret.val) => httpStatus \in 400 .. 499

\* C24: for every ContextHandle, read on any thread, before or after
\* clear(), len() is the number of pairs the handle resolves to on the
\* calling thread and is_empty() is true exactly when it resolves to none.
C24_LenIsResolvedLen ==
    (ret.op = "resolve" /\ ~ret.panicked) =>
        \A h \in ret.recs :
            /\ handle_len(ArenaHandle(h.offset, h.len, h.thread_id)) = Len(ret.pairs)
            /\ handle_is_empty(ArenaHandle(h.offset, h.len, h.thread_id)) = (ret.pairs = << >>)

\* frame a is frame f or one of its descendants
RECURSIVE InSubtree(_, _, _)
InSubtree(tr, a, f) ==
    IF a = f THEN TRUE
    ELSE IF a <= f THEN FALSE
    ELSE InSubtree(tr, tr.parent[a], f)

\* C25: FrameIter yields every frame exactly once, in depth-first pre-order
\* with the children in reverse order: a frame is yielded before each of its
\* descendants, and for two children c_i before c_j of one frame the whole
\* subtree of c_j is yielded before any frame of the subtree of c_i.
C25_ReversePreOrder ==
    /\ NoFrameTwice(yielded)
    /\ \A q \in CountQueries :
          Finished(q) => { yielded[i] : i \in 1 .. Len(yielded) } = Frames(tree)
    /\ \A i \in 1 .. Len(yielded) :
          yielded[i] # 1 => \E j \in 1 .. i - 1 : yielded[j] = tree.parent[yielded[i]]
    /\ \A ci, cj \in Frames(tree) :
          (ci < cj /\ tree.parent[ci] = tree.parent[cj]) =>
              \A a \in 1 .. Len(yielded) :
                  InSubtree(tree, yielded[a], ci) =>
                      \A f \in Frames(tree) :
                          InSubtree(tree, f, cj) => \E b \in 1 .. a - 1 : yielded[b] = f

\* C25 witness: a count went through a tree whose root has two children, the
\* first of them with a child of its own, and the second child came first
C25_Witness ==
    /\ Finished("count_frames")
    /\ Len(children(tree, 1)) = 2
    /\ children(tree, children(tree, 1)[1]) # << >>
    /\ yielded[2] = children(tree, 1)[2]
    /\ Len(yielded) = MaxFrames

\* C27: on a tree whose root is an Error, is_all_retryable implies
\* has_retryable and implies not has_permanent; and when every Error frame is
\* Persistent, has_retryable, has_permanent and is_all_retryable are all false.
C27_QueriesAgree ==
    /\ \A q \in Queries \ CountQueries :
          Finished(q) => result.value = Answer(q, tree, FrameIterNew(1))
    /\ IsError(tree, 1) =>
          /\ is_all_retryable(tree) => (has_retryable(tree) /\ ~has_permanent(tree))
          /\ (\A f \in Frames(tree) : IsError(tree, f) => tree.payload[f][2] = "Persistent")
                => (~has_retryable(tree) /\ ~has_permanent(tree) /\ ~is_all_retryable(tree))

\* C27 witness: is_all_retryable returned true on a tree with an Error at
\* the root, another Error and a frame with another payload
C27_Witness ==
    /\ Finished("is_all_retryable")
    /\ result.value
    /\ IsError(tree, 1)
    /\ has_retryable(tree)
    /\ \E f \in Frames(tree) : f # 1 /\ IsError(tree, f)
    /\ \E f \in Frames(tree) : ~IsError(tree, f)

\* no two frames have the same parent: every frame has at most one child
IsChain(tr) == Cardinality({ tr.parent[f] : f \in 2 .. tr.n }) = tr.n - 1

\* the inline capacity of FrameIter::stack
InlineFrames == 16

C26_WriteJsonAppendsToJson ==
    ret.op = "write_json" =>
        \E b \in WriteBufs :
            /\ Len(b) = ret.offset
            /\ IsPrefix(b, out)
            /\ out = b \o to_json(err)

\* C26 witness: an error with an operation and a context was written to a
\* buffer that was not empty
C26_Witness ==
    /\ ret.op = "write_json"
    /\ ret.offset > 0
    /\ err.operation # NoOperation
    /\ context(err) # << >>
    /\ Len(out) > ret.offset

\* C28: under every interleaving of the threads' first current_thread_id()
\* calls, two distinct threads obtain distinct ids, no id is 0, every later
\* call on a thread returns the id the thread obtained first, and so the
\* thread_id stored by commit_to_arena names the arena of one thread only.
C28_ThreadIdsAreUnique ==
    /\ [](\A t, u \in Threads :
            (t # u /\ threadId[t] # NoId /\ threadId[u] # NoId) => threadId[t] # threadId[u])
    /\ [](\A t \in Threads : threadId[t] # 0 /\ current_thread_id(t) # 0)
    /\ [](\A h \in issued :
            /\ h.thread_id = threadId[h.owner]
            /\ \A t \in Threads : current_thread_id(t) = h.thread_id => t = h.owner)
    /\ [][\A t \in Threads :
            threadId[t] # NoId => (threadId'[t] = threadId[t] /\ current_thread_id(t)' = threadId[t])]_vars

\* C28 witness: every thread has its id, and a thread that had committed
\* before asked for its id again when it resolved a handle
C28_Witness ==
    /\ ret.op = "resolve"
    /\ ret.val
    /\ \A t \in Threads : threadId[t] # NoId
    /\ \E h \in issued : h.owner # ret.thread

\* from position pos on, buf holds the pairs i .. Len(pairs) of a push, each
\* length prefix being the byte length of the key or value that follows it
RECURSIVE TruePrefixes(_, _, _, _)
TruePrefixes(buf, pos, pairs, i) ==
    IF i > Len(pairs) THEN TRUE
    ELSE LET kl == Len(pairs[i][1])
             vl == Len(pairs[i][2])
             vp == pos + LenBytes + kl
         IN  /\ vp + LenBytes + vl <= Len(buf)
             /\ FromLeBytes(SubSeq(buf, pos + 1, pos + LenBytes)) = kl
             /\ FromLeBytes(SubSeq(buf, vp + 1, vp + LenBytes)) = vl
             /\ TruePrefixes(buf, vp + LenBytes + vl, pairs, i + 1)

\* C29: the length prefix written by push_pairs is the true byte length of
\* the key or value, for every length, also of 2^32 bytes and more, so that
\* get_pairs on what push_pairs returned gives the pushed pairs unchanged.
C29_PrefixIsTrueLength ==
    \A h \in issued :
        ~h.stale =>
            /\ TruePrefixes(buffer[h.owner], h.offset, h.pairs, 1)
            /\ get_pairs(buffer[h.owner], h.offset, h.len, build) =
                   [pairs |-> h.pairs, panicked |-> FALSE]

=============================================================================
